---- MODULE Spec2Model ----
(***************************************************************************)
(* A model of rs-bugspots (src/src/lib.rs): the construction of the fix    *)
(* pattern (reg), the scan of a commit history into Fix records, the       *)
(* time-decayed scoring of the files the fixes touched (diff and the fold  *)
(* into the hotspots map) and the ranking of the hotspots.                 *)
(*                                                                         *)
(* f64 values are modelled as fixed-point numbers with Scale units per 1.0 *)
(* plus the IEEE specials the code can produce (NaN, +inf, -inf).          *)
(* Timestamps are whole seconds; the wall clock `now` also carries whether *)
(* it has a sub-second part, because Duration::num_seconds truncates       *)
(* towards zero.                                                           *)
(***************************************************************************)
EXTENDS Integers, Sequences, FiniteSets, TLC

VARIABLES
    args,       \* reg: the Opts fields words and regex
    pattern,    \* reg: the Result<Regex, _> it returned
    rpc,        \* reg: position ("idle", "call", "ret")
    history,    \* the commits reachable from the branch, in revwalk order
    depth,      \* opts.depth
    now,        \* time::now() as sampled at line 147
    pc,         \* scan: position
    commits,    \* scan: the collected Vec<Commit>
    ci,         \* scan: index of the commit the for loop is at
    fixes,      \* scan: Vec<Fix>
    oldest,     \* scan: oldest_fix_date
    todo,       \* scan: the (fix, file) occurrences the fold has still to visit
    hotspots,   \* scan: HashMap<String, f64>
    result      \* what scan returned

vars == <<args, pattern, rpc, history, depth, now, pc, commits, ci, fixes,
          oldest, todo, hotspots, result>>

regVars == <<args, pattern, rpc>>
scanVars == <<history, depth, now, pc, commits, ci, fixes, oldest, todo,
              hotspots, result>>

(***************************************************************************)
(* Bounds of the model.                                                    *)
(***************************************************************************)
MaxCommits == 3
MaxDepth == 1
MaxTime == 2
MaxWordLen == 3

(* Fixed-point resolution of the modelled f64: Scale units are 1.0, and
   Scale is the square of Half so that products stay within 32 bits. *)
Half == 10 * 100
Scale == Half * Half

(* The steepness constant of the logistic curve. *)
Steepness == 12

(***************************************************************************)
(* Options and strings (reg).  A string is a sequence of characters.       *)
(***************************************************************************)
Chars == {"a", "b", ","}

RECURSIVE StringsUpTo(_)
StringsUpTo(n) ==
    IF n = 0 THEN {<<>>}
    ELSE LET shorter == StringsUpTo(n - 1)
         IN  shorter \cup {Append(s, c) : s \in {t \in shorter : Len(t) = n - 1}, c \in Chars}

None == [some |-> FALSE, s |-> <<>>]
Some(s) == [some |-> TRUE, s |-> s]

WordOpts == {None} \cup {Some(s) : s \in StringsUpTo(MaxWordLen)}
RegexOpts == {None, Some(<<"a">>), Some(<<"b", ",", "a">>)}

DefaultPattern ==
    <<"(", "f", "i", "x", "(", "e", "s", "|", "e", "d", ")", "?", "|",
      "c", "l", "o", "s", "e", "(", "[", "s", "d", "]", ")", "?", ")">>

(* str::split(','): the pieces between the commas, empty pieces kept. *)
RECURSIVE SplitFrom(_, _, _)
SplitFrom(w, i, cur) ==
    IF i > Len(w) THEN <<cur>>
    ELSE IF w[i] = "," THEN <<cur>> \o SplitFrom(w, i + 1, <<>>)
    ELSE SplitFrom(w, i + 1, Append(cur, w[i]))

Split(w) == SplitFrom(w, 1, <<>>)

(* [&str]::join("|") *)
RECURSIVE Join(_)
Join(segs) ==
    IF Len(segs) = 0 THEN <<>>
    ELSE IF Len(segs) = 1 THEN segs[1]
    ELSE segs[1] \o <<"|">> \o Join(Tail(segs))

reg_from_words(a) ==
    IF a.words.some THEN Some(Join(Split(a.words.s))) ELSE None

(* reg with the explicit regex taking priority over the word list. *)
regRegexFirst(a) ==
    LET r == reg_from_words(a)
    IN  IF a.regex.some THEN a.regex.s
        ELSE IF r.some THEN r.s
        ELSE DefaultPattern

(* The pattern string reg hands to Regex::new. *)
reg(a) ==
    LET r == reg_from_words(a)
    IN  IF r.some THEN r.s
        ELSE IF a.regex.some THEN a.regex.s
        ELSE DefaultPattern

NoPattern == [ok |-> FALSE, s |-> <<>>]
IdleArgs == [words |-> None, regex |-> None]

(***************************************************************************)
(* The repository: commits in revwalk order.                               *)
(***************************************************************************)
Times == 0 .. MaxTime

(* The old-file paths of the deltas of a commit against its first parent;
   "" stands for a delta whose old path is absent or not UTF-8. *)
DeltaLists == {<<>>, <<"a">>, <<"a", "b">>, <<"", "b">>}

FixMessage == "fix bug"
OtherMessage == "add feature"

(* opts.regex.is_match on the first line of the message. *)
IsMatch(message) == message = FixMessage

(* A commit with a parent.  Time and deltas of a commit that is not a fix
   are never read, so they are held at one value. *)
NonRootCommits ==
    {[message |-> OtherMessage, time |-> 0, deltas |-> <<>>, parents |-> 1]}
    \cup {[message |-> FixMessage, time |-> t, deltas |-> d, parents |-> 1] :
            t \in Times, d \in DeltaLists}

(* The root commit has no parent, so its diff is never taken. *)
RootCommits ==
    {[message |-> m, time |-> 0, deltas |-> <<>>, parents |-> 0] :
        m \in {FixMessage, OtherMessage}}

(* A history ends in its root commit. *)
Histories ==
    UNION {{Append(p, r) : p \in [1 .. n -> NonRootCommits], r \in RootCommits} :
            n \in 0 .. MaxCommits - 1}

DepthOpts == {[some |-> FALSE, d |-> 0]} \cup {[some |-> TRUE, d |-> k] : k \in 0 .. MaxDepth}

(* The wall clock: a whole second and whether a part of a second follows it.
   Commit times may lie before, at and after it. *)
Nows == {[sec |-> t, frac |-> f] : t \in Times, f \in BOOLEAN}

(***************************************************************************)
(* f64                                                                     *)
(***************************************************************************)
NaN == [nan |-> TRUE, v |-> 0]
Fin(v) == [nan |-> FALSE, v |-> v]
Zero == Fin(0)

FAdd(x, y) == IF x.nan \/ y.nan THEN NaN ELSE Fin(x.v + y.v)

(* x >= y as IEEE compares: false when either is NaN. *)
FGeq(x, y) == ~x.nan /\ ~y.nan /\ x.v >= y.v
FLess(x, y) == ~x.nan /\ ~y.nan /\ x.v < y.v

Abs(n) == IF n < 0 THEN -n ELSE n

(* Scale * e^(-1/d), d >= 1, by the Taylor series. *)
RECURSIVE ExpNegUnitFrom(_, _, _)
ExpNegUnitFrom(d, k, term) ==
    IF term = 0 THEN 0
    ELSE LET next == term \div (d * k)
         IN  (IF k % 2 = 1 THEN -next ELSE next) + ExpNegUnitFrom(d, k + 1, next)

ExpNegUnit(d) == Scale + ExpNegUnitFrom(d, 1, Scale)

(* x * Scale / y for 0 <= x < y <= 2 * Scale, without leaving 32 bits. *)
DivScaled(x, y) ==
    LET q1 == (x * Half) \div y
        r1 == (x * Half) % y
    IN  q1 * Half + (r1 * Half) \div y

(* Scale * e^(-n/d), n >= 0, d >= 1, from base = Scale * e^(-1/d); a
   product p * base / Scale is taken in two parts to stay within 32 bits. *)
RECURSIVE PowScaled(_, _)
PowScaled(base, n) ==
    IF n = 0 THEN Scale
    ELSE LET p == PowScaled(base, n - 1)
         IN  (p * (base \div Half)) \div Half + (p * (base % Half)) \div Scale

ExpNeg(n, d) == PowScaled(ExpNegUnit(d), n)

(* 1.0 / (1.0 + exp(n/d)) for a finite exponent n/d, d # 0, as
   e^-x / (1 + e^-x) for x >= 0 and 1 - e^x / (1 + e^x) for x < 0.
   A weight below 1/Scale comes out as 0. *)
Logistic(n, d) ==
    LET sn == IF d < 0 THEN -n ELSE n
        sd == Abs(d)
        y == ExpNeg(Abs(sn), sd)
        w == DivScaled(y, Scale + y)
    IN  IF sn >= 0 THEN w ELSE Scale - w

(* (cur - date).num_seconds(): the difference truncated towards zero. *)
NumSeconds(cur, date) ==
    LET d == cur.sec - date
    IN  IF d < 0 /\ cur.frac THEN d + 1 ELSE d

diff(current_time, oldest_fix_date, fix_date) ==
    LET a == NumSeconds(current_time, fix_date)
        b == NumSeconds(current_time, oldest_fix_date)
    IN  IF b = 0
        THEN \* a division by 0.0: NaN, +inf or -inf
             IF a = 0 THEN NaN           \* t = NaN
             ELSE IF a > 0 THEN Fin(0)   \* t = -inf, exp(+inf) = +inf
             ELSE Fin(Scale)             \* t = +inf, exp(-inf) = 0
        ELSE \* t = 1 - a/b = (b - a)/b; the exponent is -12 t + 12
             LET tn == b - a
             IN  Fin(Logistic(-Steepness * tn + Steepness * b, b))

(***************************************************************************)
(* scan                                                                    *)
(***************************************************************************)
Take(s, d) ==
    IF d.some /\ d.d < Len(s) THEN SubSeq(s, 1, d.d) ELSE s

(* .filter(|p| p != "") *)
NonEmpty(p) == p # ""

ChangedFiles(commit) == SelectSeq(commit.deltas, NonEmpty)

MakeFix(commit) ==
    [message |-> commit.message, date |-> commit.time, files |-> ChangedFiles(commit)]

(* The fold visiting only the first file of every fix. *)
RECURSIVE OccurrencesFirstOnly(_, _)
OccurrencesFirstOnly(fs, i) ==
    IF i > Len(fs) THEN <<>>
    ELSE [j \in 1 .. (IF Len(fs[i].files) > 0 THEN 1 ELSE 0) |->
            [fix |-> i, file |-> fs[i].files[j]]]
         \o OccurrencesFirstOnly(fs, i + 1)

(* The (fix, file) pairs in the order the nested loops visit them. *)
RECURSIVE Occurrences(_, _)
Occurrences(fs, i) ==
    IF i > Len(fs) THEN <<>>
    ELSE [j \in 1 .. Len(fs[i].files) |-> [fix |-> i, file |-> fs[i].files[j]]]
         \o Occurrences(fs, i + 1)

Get(h, file) == IF file \in DOMAIN h THEN h[file] ELSE Zero

Insert(h, file, v) ==
    [f \in DOMAIN h \cup {file} |-> IF f = file THEN v ELSE h[f]]

Orders(S) ==
    {o \in [1 .. Cardinality(S) -> S] : \A i, j \in 1 .. Cardinality(S) : i # j => o[i] # o[j]}

Spot(file, score) == [file |-> file, score |-> score]

(* The spots Vec as pushed while iterating the map in the order o. *)
SpotsIn(h, o) == [i \in 1 .. Len(o) |-> Spot(o[i], h[o[i]])]

(* The comparison the other way round: a.score.partial_cmp(&b.score). *)
BeforeAscending(a, b) == FLess(a.score, b.score)

(* b.score.partial_cmp(&a.score) == Less: a goes before b. *)
Before(a, b) == FLess(b.score, a.score)

(* Stable insertion of x into the sorted s. *)
RECURSIVE InsertSorted(_, _)
InsertSorted(s, x) ==
    IF s = <<>> THEN <<x>>
    ELSE IF Before(x, s[1]) THEN <<x>> \o s
    ELSE <<s[1]>> \o InsertSorted(Tail(s), x)

RECURSIVE SortBy(_)
SortBy(s) ==
    IF s = <<>> THEN <<>>
    ELSE InsertSorted(SortBy(SubSeq(s, 1, Len(s) - 1)), s[Len(s)])

(* partial_cmp(..).unwrap() panics on a NaN; a slice of fewer than two
   elements is never compared. *)
SortPanics(s) == Len(s) >= 2 /\ \E i \in 1 .. Len(s) : s[i].score.nan

Pending == [kind |-> "pending", fixes |-> <<>>, spots |-> <<>>]
Err == [kind |-> "err", fixes |-> <<>>, spots |-> <<>>]
Ok(f, s) == [kind |-> "ok", fixes |-> f, spots |-> s]

ScanStart ==
    /\ pc = "walk" /\ commits = <<>> /\ ci = 1 /\ fixes = <<>> /\ oldest = 0
    /\ todo = <<>> /\ hotspots = <<>> /\ result = Pending

ScanIdle ==
    /\ history = <<>> /\ depth = [some |-> FALSE, d |-> 0]
    /\ now = [sec |-> 0, frac |-> FALSE]
    /\ pc = "idle" /\ commits = <<>> /\ ci = 1 /\ fixes = <<>> /\ oldest = 0
    /\ todo = <<>> /\ hotspots = <<>> /\ result = Pending

Init ==
    /\ args = IdleArgs /\ pattern = NoPattern /\ rpc = "idle"
    /\ history \in Histories
    /\ depth \in DepthOpts
    /\ now \in Nows
    /\ ScanStart

InitReg ==
    /\ args \in [words : WordOpts, regex : RegexOpts]
    /\ pattern = NoPattern
    /\ rpc = "call"
    /\ ScanIdle

(* reg, and as_str() of what it returned. *)
Reg ==
    /\ rpc = "call"
    /\ pattern' = [ok |-> TRUE, s |-> reg(args)]
    /\ rpc' = "ret"
    /\ UNCHANGED <<args>>
    /\ UNCHANGED scanVars

(* lines 94-100: collect the walk, cut to the depth. *)
Walk ==
    /\ pc = "walk"
    /\ commits' = Take(history, depth)
    /\ pc' = "loop"
    /\ UNCHANGED <<history, depth, now, ci, fixes, oldest, todo, hotspots, result>>
    /\ UNCHANGED regVars

(* lines 111-113: not a fix. *)
LoopSkip ==
    /\ pc = "loop" /\ ci <= Len(commits)
    /\ ~IsMatch(commits[ci].message)
    /\ ci' = ci + 1
    /\ UNCHANGED <<history, depth, now, pc, commits, fixes, oldest, todo, hotspots, result>>
    /\ UNCHANGED regVars

(* The failing commit skipped instead of the error returned. *)
ParentSkipped == [pc |-> "loop", ci |-> ci + 1, result |-> result]

(* What a fix commit without a first parent does to the scan. *)
ParentFailure == [pc |-> "error", ci |-> ci, result |-> Err]

(* line 115: commit.parent(0)? fails. *)
LoopParentError ==
    /\ pc = "loop" /\ ci <= Len(commits)
    /\ IsMatch(commits[ci].message)
    /\ commits[ci].parents = 0
    /\ pc' = ParentFailure.pc
    /\ ci' = ParentFailure.ci
    /\ result' = ParentFailure.result
    /\ UNCHANGED <<history, depth, now, commits, fixes, oldest, todo, hotspots>>
    /\ UNCHANGED regVars

(* The loop without the test of the message. *)
PushesUnmatched(commit) == commit.parents > 0

(* Whether the loop pushes a Fix for the commit. *)
Pushes(commit) == IsMatch(commit.message) /\ commit.parents > 0

(* lines 115-143: diff against the first parent and push the Fix. *)
LoopPush ==
    /\ pc = "loop" /\ ci <= Len(commits)
    /\ Pushes(commits[ci])
    /\ fixes' = Append(fixes, MakeFix(commits[ci]))
    /\ ci' = ci + 1
    /\ UNCHANGED <<history, depth, now, pc, commits, oldest, todo, hotspots, result>>
    /\ UNCHANGED regVars

(* line 148: fixes.last().unwrap() on an empty Vec. *)
UnwrapPanic ==
    /\ pc = "loop" /\ ci > Len(commits)
    /\ fixes = <<>>
    /\ pc' = "panic"
    /\ UNCHANGED <<history, depth, now, commits, ci, fixes, oldest, todo, hotspots, result>>
    /\ UNCHANGED regVars

OldestFixDate(fs) == fs[Len(fs)].date

(* lines 146-148. *)
ScoreBegin ==
    /\ pc = "loop" /\ ci > Len(commits)
    /\ fixes # <<>>
    /\ oldest' = OldestFixDate(fixes)
    /\ todo' = Occurrences(fixes, 1)
    /\ pc' = "fold"
    /\ UNCHANGED <<history, depth, now, commits, ci, fixes, hotspots, result>>
    /\ UNCHANGED regVars

(* lines 151-157: one (fix, file) occurrence. *)
FoldStep ==
    /\ pc = "fold" /\ todo # <<>>
    /\ LET file == todo[1].file
           t == diff(now, oldest, fixes[todo[1].fix].date)
           value == Get(hotspots, file)
       IN  hotspots' = Insert(hotspots, file, FAdd(t, value))
    /\ todo' = Tail(todo)
    /\ UNCHANGED <<history, depth, now, pc, commits, ci, fixes, oldest, result>>
    /\ UNCHANGED regVars

(* lines 161-168, the comparison panicking. *)
RankPanic ==
    /\ pc = "fold" /\ todo = <<>>
    /\ \E o \in Orders(DOMAIN hotspots) : SortPanics(SpotsIn(hotspots, o))
    /\ pc' = "panic"
    /\ UNCHANGED <<history, depth, now, commits, ci, fixes, oldest, todo, hotspots, result>>
    /\ UNCHANGED regVars

(* lines 161-170: the map is iterated in some order, sorted and returned. *)
RankReturn ==
    /\ pc = "fold" /\ todo = <<>>
    /\ \E o \in Orders(DOMAIN hotspots) :
          /\ ~SortPanics(SpotsIn(hotspots, o))
          /\ result' = Ok(fixes, SortBy(SpotsIn(hotspots, o)))
    /\ pc' = "done"
    /\ UNCHANGED <<history, depth, now, commits, ci, fixes, oldest, todo, hotspots>>
    /\ UNCHANGED regVars

Next ==
    \/ Walk
    \/ LoopSkip
    \/ LoopParentError
    \/ LoopPush
    \/ UnwrapPanic
    \/ ScoreBegin
    \/ FoldStep
    \/ RankPanic
    \/ RankReturn

Spec == Init /\ [][Next]_vars

NextReg == Reg

SpecReg == InitReg /\ [][NextReg]_vars

(***************************************************************************)
(* Helpers of the properties.                                              *)
(***************************************************************************)
Scanned == Take(history, depth)

Range(s) == {s[i] : i \in 1 .. Len(s)}

FixFiles(fs) == UNION {Range(fs[i].files) : i \in 1 .. Len(fs)}

(* The occurrences the fold has visited so far. *)
Visited ==
    LET all == Occurrences(fixes, 1)
    IN  SubSeq(all, 1, Len(all) - Len(todo))

VisitsOf(f) == Cardinality({i \in 1 .. Len(Visited) : Visited[i].file = f})

(* The weight at t = 1: 1 / (1 + exp(0)). *)
WeightAtOne == Scale \div 2

MatchesPattern(c) == IsMatch(c.message)

NoFixScanned == \A i \in 1 .. Len(Scanned) : ~MatchesPattern(Scanned[i])

(***************************************************************************)
(* C1: when no scanned commit is a fix (an empty or fix-free traversal,    *)
(* or depth 0), scan neither fails nor panics, and what it returns is an   *)
(* empty Fix list and an empty hotspot list.                               *)
(***************************************************************************)
C1_NoFixScanReturnsEmpty ==
    NoFixScanned =>
        /\ pc \notin {"panic", "error"}
        /\ pc = "done" => result = Ok(<<>>, <<>>)

(***************************************************************************)
(* C2: when the divisor (now - oldest) is zero whole seconds the scorer    *)
(* guards the case: every weight it adds is the weight of t = 1 (or the    *)
(* scan stops with an error), so no score is NaN or otherwise the outcome  *)
(* of the division by zero.                                                *)
(***************************************************************************)
C2_ZeroDivisorGuarded ==
    (pc \in {"fold", "done"} /\ NumSeconds(now, oldest) = 0) =>
        \A f \in DOMAIN hotspots :
            /\ ~hotspots[f].nan
            /\ hotspots[f] = Fin(VisitsOf(f) * WeightAtOne)

(***************************************************************************)
(* C3: the file paths of the hotspot output are exactly the paths in the   *)
(* files lists of the Fix records, one entry per distinct path; while the  *)
(* fold runs the map holds no path outside them.                           *)
(***************************************************************************)
C3_HotspotFilesAreFixFiles ==
    /\ pc = "fold" => DOMAIN hotspots \subseteq FixFiles(fixes)
    /\ (pc = "fold" /\ todo = <<>>) => DOMAIN hotspots = FixFiles(fixes)
    /\ pc = "done" =>
          /\ {result.spots[i].file : i \in 1 .. Len(result.spots)} = FixFiles(result.fixes)
          /\ Len(result.spots) = Cardinality(FixFiles(result.fixes))

C3_Witness ==
    /\ pc = "done"
    /\ Len(result.fixes) = 2
    /\ result.fixes[1].files = <<"a">>
    /\ result.fixes[2].files = <<"a", "b">>
    /\ Len(result.spots) = 2

(* What one step of the fold must do to the scores. *)
FoldStepMonotone ==
    (pc = "fold" /\ todo # <<>> /\ todo' = Tail(todo)) =>
        \A f \in DOMAIN hotspots' :
            IF f = todo[1].file
            THEN FGeq(hotspots'[f], Get(hotspots, f))
            ELSE f \in DOMAIN hotspots /\ hotspots'[f] = hotspots[f]

(***************************************************************************)
(* C4: every step of the fold leaves the score of the file it visits       *)
(* greater than or equal to what it was (0 for an unseen file) and leaves  *)
(* the score of every other file as it was.                                *)
(***************************************************************************)
C4_FoldMonotone == [][FoldStepMonotone]_vars

(***************************************************************************)
(* C5: the oldest date, taken from the last Fix record, is the earliest    *)
(* date of all Fix records of the run.                                     *)
(***************************************************************************)
C5_OldestIsEarliest ==
    pc \in {"fold", "done"} =>
        \A i \in 1 .. Len(fixes) : fixes[i].date >= oldest

(***************************************************************************)
(* C6: the ranked list does not depend on the order in which the score     *)
(* map is iterated: every iteration order gives the list that was          *)
(* returned.                                                               *)
(***************************************************************************)
C6_RankDeterministic ==
    pc = "done" =>
        \A o \in Orders(DOMAIN hotspots) :
            SortBy(SpotsIn(hotspots, o)) = result.spots

(***************************************************************************)
(* C7: the ranked list scan returns is sorted by non-increasing score and  *)
(* is a permutation of the entries of the score map.                       *)
(***************************************************************************)
C7_RankedDescending ==
    pc = "done" =>
        LET sp == result.spots
        IN  /\ \A i \in 1 .. Len(sp) - 1 : FGeq(sp[i].score, sp[i + 1].score)
            /\ Len(sp) = Cardinality(DOMAIN hotspots)
            /\ Range(sp) = {[file |-> f, score |-> hotspots[f]] : f \in DOMAIN hotspots}

C7_Witness ==
    /\ pc = "done"
    /\ Len(result.spots) = 2
    /\ result.spots[1].file = "b"
    /\ result.spots[1].score.v > result.spots[2].score.v
    /\ result.spots[2].score.v > 0

(* The Fix records of the matching commits of cs, in order. *)
FixesOf(cs) ==
    LET m == SelectSeq(cs, MatchesPattern)
    IN  [k \in 1 .. Len(m) |->
            [message |-> m[k].message, date |-> m[k].time,
             files |-> SelectSeq(m[k].deltas, LAMBDA q : q # "")]]

(***************************************************************************)
(* C8: the Fix list scan returns holds one record for every commit of the  *)
(* traversal (within the depth) whose first message line matches, none for *)
(* the others, in the order of the traversal; each record carries the      *)
(* commit's message line, its time and its non-empty changed paths.        *)
(***************************************************************************)
C8_FixesFollowTraversal ==
    /\ pc = "loop" => fixes = FixesOf(SubSeq(commits, 1, ci - 1))
    /\ pc = "done" => result.fixes = FixesOf(Scanned)

C8_Witness ==
    /\ pc = "done"
    /\ Len(Scanned) = 3
    /\ ~MatchesPattern(Scanned[3])
    /\ Len(result.fixes) = 2
    /\ result.fixes[1].date < result.fixes[2].date
    /\ result.fixes[1].files # result.fixes[2].files

(***************************************************************************)
(* C9: reg takes the pattern from the word list when one is configured     *)
(* (each ',' of it replaced by '|', the rest unchanged) whatever the       *)
(* explicit regex; otherwise the explicit regex verbatim; otherwise the    *)
(* built-in default.                                                       *)
(***************************************************************************)
C9_RegPriority ==
    rpc = "ret" =>
        /\ pattern.ok
        /\ IF args.words.some
           THEN LET w == args.words.s
                IN  /\ Len(pattern.s) = Len(w)
                    /\ \A i \in 1 .. Len(w) :
                          pattern.s[i] = IF w[i] = "," THEN "|" ELSE w[i]
           ELSE IF args.regex.some
           THEN pattern.s = args.regex.s
           ELSE pattern.s = DefaultPattern

C9_Witness ==
    /\ rpc = "ret"
    /\ args.words = Some(<<"a", ",", "b">>)
    /\ args.regex.some
    /\ pattern.s = <<"a", "|", "b">>

ParentlessFix(c) == MatchesPattern(c) /\ c.parents = 0

ParentlessFixScanned == \E i \in 1 .. Len(Scanned) : ParentlessFix(Scanned[i])

(***************************************************************************)
(* C10: when a scanned commit that matches has no first parent, scan       *)
(* stops at that commit with the error: it returns no Fix list and no      *)
(* hotspot list, takes no further step, and never reaches the scoring,     *)
(* however many fixes it had collected.                                    *)
(***************************************************************************)
C10_ParentFailureAborts ==
    /\ ParentlessFixScanned => pc \in {"walk", "loop", "error"}
    /\ (ParentlessFixScanned /\ pc = "loop") =>
          \A i \in 1 .. ci - 1 : ~ParentlessFix(commits[i])
    /\ pc = "error" =>
          /\ result = Err
          /\ ParentlessFix(commits[ci])
          /\ ~ENABLED Next

C10_Witness ==
    /\ pc = "error"
    /\ Len(fixes) = 2
    /\ result.kind = "err"

====
